---- MODULE Spec2Model ----
(***************************************************************************)
(* The epoch loop of Trainer.train (train.py) as a state machine.          *)
(*                                                                         *)
(* Every statement of the loop that touches the model, the optimizer, the  *)
(* gradient scaler, the scheduler, the running sums, the logger or the     *)
(* checkpoint is one action.  Floating-point quantities are exact          *)
(* rationals [num, den]; a per-batch loss is a small natural number and    *)
(* the number of correct predictions of a batch is any count between 0     *)
(* and the size of the batch.                                              *)
(*                                                                         *)
(* Environment of a call of train():                                       *)
(*   tqdm  what the module-global name `tqdm` is bound to.  `import tqdm`  *)
(*         (line 6) binds it to the module, which is not callable; the     *)
(*         loop body can only run when a caller has rebound the name to    *)
(*         the tqdm class, so both bindings are explored.                  *)
(*   args  the configuration object handed to Trainer.  get_args_parser    *)
(*         declares no clip_grad option, so a parsed configuration has     *)
(*         no clip_grad field; a hand-built configuration may carry one.   *)
(***************************************************************************)
EXTENDS Integers, Sequences, FiniteSets

\* ---------------------------------------------------------------- bounds
MaxEpochs == 2
MaxTrain == 3
MaxVal == 2
MaxLoss == 1

\* --------------------------------------------------- program constants
DefaultBatchSize == 128       \* default of --batch_size
SmallBatch == 2               \* a batch size small enough to split a split

ClipGradValues == {-1, 0, 1}
BatchSizes == {SmallBatch, DefaultBatchSize}

VARIABLES
    pc,                  \* position in train()
    args,                \* self.args: epochs, batch_size and, if set, clip_grad
    tqdm,                \* binding of the global name tqdm: "module" | "class"
    train_n,             \* len(self.train_loader.dataset)
    val_n,               \* len(self.val_loader.dataset)
    epoch,               \* loop variable of line 125 (-1 before the first epoch)
    batch,               \* batches of the current loader already consumed
    todo,                \* statements of the current batch still to run
    trace,               \* calls made so far in the current batch
    loss,                \* loss.item() of the current batch
    correct,             \* (predicted == labels).sum().item() of the batch
    total_train_loss,
    total_train_correct,
    total_val_loss,
    total_val_correct,
    batch_losses,        \* the loss.item() values added in the current phase
    avg_train_loss,
    train_accuracy,
    avg_val_loss,
    val_accuracy,
    best_accuracy,
    model,               \* [mode, params]: params counts the optimizer steps applied
    optimizer,           \* [steps, zeroed]
    scaler,              \* [scaled, unscaled, updates]
    lr_scheduler,        \* number of lr_scheduler.step() calls
    log_lines,           \* number of self.logger.info calls
    save_calls,          \* arguments of every save_checkpoint call, in order
    val_accs,            \* val_accuracy of every epoch that computed it
    lists                \* the four lists of line 113

vars == <<pc, args, tqdm, train_n, val_n, epoch, batch, todo, trace, loss,
          correct, total_train_loss, total_train_correct, total_val_loss,
          total_val_correct, batch_losses, avg_train_loss, train_accuracy,
          avg_val_loss, val_accuracy, best_accuracy, model, optimizer, scaler,
          lr_scheduler, log_lines, save_calls, val_accs, lists>>

env == <<args, tqdm, train_n, val_n>>
training_state == <<model, optimizer, scaler, lr_scheduler>>
train_sums == <<total_train_loss, total_train_correct>>
val_sums == <<total_val_loss, total_val_correct>>
metrics == <<avg_train_loss, train_accuracy, avg_val_loss, val_accuracy>>
outputs == <<best_accuracy, log_lines, save_calls, val_accs, lists>>

\* ------------------------------------------------------------- rationals
Rat(n, d) == [num |-> n, den |-> d]
Unbound == Rat(0, 0)              \* a local that has not been assigned yet
Gt(a, b) == a.num * b.den > b.num * a.den
Ge(a, b) == a.num * b.den >= b.num * a.den
RatEq(a, b) == a.num * b.den = b.num * a.den

Floor == Rat(0, 1)                \* best_accuracy = 0.0 of line 114

\* ---------------------------------------------------------- the loaders
\* len(DataLoader(dataset, batch_size)), drop_last left at its default.
NumBatches(n, bs) == (n + bs - 1) \div bs
\* Number of examples in the i-th batch (1-based) of such a loader.
BatchLen(i, n, bs) == IF i * bs <= n THEN bs ELSE n - (i - 1) * bs

\* ------------------------------------------------------------ get_args_parser
HasAttr(namespace, field) == field \in DOMAIN namespace

\* The configurations parse_known_args can return, projected on the fields
\* the loop reads: clip_grad is not among the declared options.
ParsedArgs ==
    [epochs : 0..MaxEpochs, batch_size : BatchSizes]
HandBuiltArgs ==
    [epochs : 0..MaxEpochs, batch_size : BatchSizes, clip_grad : ClipGradValues]

\* ------------------------------------------------------- loop statements
TrainStmtsM ==
    <<"zero_grad", "forward_loss", "backward", "scaler_step", "clip_if",
      "scaler_update", "accumulate">>
TrainStmts ==
    <<"zero_grad", "forward_loss", "backward", "clip_if", "scaler_step",
      "scaler_update", "accumulate">>

ValStmtsM == <<"forward_loss", "scaler_step", "accumulate">>
ValStmts == <<"forward_loss", "accumulate">>

ClipCallsM(clip_grad) ==
    IF clip_grad >= 0 THEN <<"unscale_", "clip_gradients">> ELSE <<>>
ClipCalls(clip_grad) ==
    IF clip_grad > 0 THEN <<"unscale_", "clip_gradients">> ELSE <<>>

AvgLossM(total, loader_len, dataset_len) == Rat(total, dataset_len)
AvgLoss(total, loader_len, dataset_len) == Rat(total, loader_len)

AccuracyM(total_correct, loader_len, dataset_len) == Rat(total_correct, loader_len)
Accuracy(total_correct, loader_len, dataset_len) == Rat(total_correct, dataset_len)

IsNewBestM(val, best) == Ge(val, best)
IsNewBest(val, best) == Gt(val, best)

SchedulerStepM(steps) == steps
SchedulerStep(steps) == steps + 1

HistoryAfterEpochM(ls, tl, vl, ta, va) ==
    [train_losses |-> Append(ls.train_losses, tl),
     val_losses |-> Append(ls.val_losses, vl),
     train_accuracies |-> Append(ls.train_accuracies, ta),
     val_accuracies |-> Append(ls.val_accuracies, va)]
HistoryAfterEpoch(ls, tl, vl, ta, va) == ls

EmptyLists ==
    [train_losses |-> <<>>, val_losses |-> <<>>,
     train_accuracies |-> <<>>, val_accuracies |-> <<>>]

\* ------------------------------------------------------------------ Init
Init ==
    /\ pc = "Idle"
    /\ args \in ParsedArgs \cup HandBuiltArgs
    /\ tqdm \in {"module", "class"}
    /\ train_n \in 0..MaxTrain
    /\ val_n \in 0..MaxVal
    /\ epoch = -1
    /\ batch = 0
    /\ todo = <<>>
    /\ trace = <<>>
    /\ loss = 0
    /\ correct = 0
    /\ total_train_loss = 0
    /\ total_train_correct = 0
    /\ total_val_loss = 0
    /\ total_val_correct = 0
    /\ batch_losses = <<>>
    /\ avg_train_loss = Unbound
    /\ train_accuracy = Unbound
    /\ avg_val_loss = Unbound
    /\ val_accuracy = Unbound
    /\ best_accuracy = Unbound
    /\ model = [mode |-> "train", params |-> 0]
    /\ optimizer = [steps |-> 0, zeroed |-> 0]
    /\ scaler = [scaled |-> 0, unscaled |-> 0, updates |-> 0]
    /\ lr_scheduler = 0
    /\ log_lines = 0
    /\ save_calls = <<>>
    /\ val_accs = <<>>
    /\ lists = EmptyLists

\* --------------------------------------------------------------- actions
BatchPcs == {"TrainingBatch", "ValidatingBatch"}
LoaderLen(n) == NumBatches(n, args.batch_size)

\* Lines 113-123: the four lists, the best-accuracy floor, the device banner.
Start ==
    /\ pc = "Idle"
    /\ lists' = EmptyLists
    /\ best_accuracy' = Floor
    /\ pc' = "EpochHead"
    /\ UNCHANGED <<env, epoch, batch, todo, trace, loss, correct, train_sums,
                   val_sums, batch_losses, metrics, training_state, log_lines,
                   save_calls, val_accs>>

\* Lines 125-133: range(self.args.epochs) yields the next index; the progress
\* bar is built by calling the global name tqdm, which raises TypeError while
\* it names the module.
EpochBegin ==
    /\ pc = "EpochHead"
    /\ epoch + 1 < args.epochs
    /\ epoch' = epoch + 1
    /\ IF tqdm = "module"
       THEN /\ pc' = "Aborted"
            /\ UNCHANGED <<model, train_sums, batch, batch_losses>>
       ELSE /\ model' = [model EXCEPT !.mode = "train"]
            /\ total_train_loss' = 0
            /\ total_train_correct' = 0
            /\ batch' = 0
            /\ batch_losses' = <<>>
            /\ pc' = "TrainLoop"
    /\ UNCHANGED <<env, todo, trace, loss, correct, val_sums, metrics,
                   optimizer, scaler, lr_scheduler, outputs>>

\* Lines 134-135: the training loader yields its next batch.
TrainBatchBegin ==
    /\ pc = "TrainLoop"
    /\ batch < LoaderLen(train_n)
    /\ todo' = TrainStmts
    /\ trace' = <<>>
    /\ pc' = "TrainingBatch"
    /\ UNCHANGED <<env, epoch, batch, loss, correct, train_sums, val_sums,
                   batch_losses, metrics, training_state, outputs>>

\* Line 136.
ZeroGrad ==
    /\ pc \in BatchPcs /\ todo # <<>> /\ Head(todo) = "zero_grad"
    /\ optimizer' = [optimizer EXCEPT !.zeroed = @ + 1]
    /\ trace' = Append(trace, "zero_grad")
    /\ todo' = Tail(todo)
    /\ UNCHANGED <<pc, env, epoch, batch, loss, correct, train_sums, val_sums,
                   batch_losses, metrics, model, scaler, lr_scheduler, outputs>>

\* Lines 138-140 and 166-167: the forward pass fixes the loss of the batch
\* and how many of its examples are predicted correctly.
ForwardLoss ==
    /\ pc \in BatchPcs /\ todo # <<>> /\ Head(todo) = "forward_loss"
    /\ LET n == IF pc = "TrainingBatch" THEN train_n ELSE val_n
       IN  /\ loss' \in 0..MaxLoss
           /\ correct' \in 0..BatchLen(batch + 1, n, args.batch_size)
    /\ trace' = Append(trace, "forward_loss")
    /\ todo' = Tail(todo)
    /\ UNCHANGED <<pc, env, epoch, batch, train_sums, val_sums, batch_losses,
                   metrics, training_state, outputs>>

\* Line 142.
Backward ==
    /\ pc \in BatchPcs /\ todo # <<>> /\ Head(todo) = "backward"
    /\ scaler' = [scaler EXCEPT !.scaled = @ + 1]
    /\ trace' = Append(trace, "backward")
    /\ todo' = Tail(todo)
    /\ UNCHANGED <<pc, env, epoch, batch, loss, correct, train_sums, val_sums,
                   batch_losses, metrics, model, optimizer, lr_scheduler,
                   outputs>>

\* Lines 144-146: reading self.args.clip_grad raises AttributeError when the
\* configuration has no such field.
ClipIf ==
    /\ pc \in BatchPcs /\ todo # <<>> /\ Head(todo) = "clip_if"
    /\ IF ~HasAttr(args, "clip_grad")
       THEN /\ pc' = "Aborted"
            /\ UNCHANGED <<trace, todo, scaler>>
       ELSE /\ trace' = trace \o ClipCalls(args.clip_grad)
            /\ scaler' = [scaler EXCEPT
                            !.unscaled = @ + (IF ClipCalls(args.clip_grad) = <<>>
                                              THEN 0 ELSE 1)]
            /\ todo' = Tail(todo)
            /\ pc' = pc
    /\ UNCHANGED <<env, epoch, batch, loss, correct, train_sums, val_sums,
                   batch_losses, metrics, model, optimizer, lr_scheduler,
                   outputs>>

\* Line 148: the scaler hands the gradients to optimizer.step (which the
\* scaler may skip internally on non-finite gradients; the call is counted).
ScalerStep ==
    /\ pc \in BatchPcs /\ todo # <<>> /\ Head(todo) = "scaler_step"
    /\ optimizer' = [optimizer EXCEPT !.steps = @ + 1]
    /\ model' = [model EXCEPT !.params = @ + 1]
    /\ trace' = Append(trace, "scaler_step")
    /\ todo' = Tail(todo)
    /\ UNCHANGED <<pc, env, epoch, batch, loss, correct, train_sums, val_sums,
                   batch_losses, metrics, scaler, lr_scheduler, outputs>>

\* Line 149.
ScalerUpdate ==
    /\ pc \in BatchPcs /\ todo # <<>> /\ Head(todo) = "scaler_update"
    /\ scaler' = [scaler EXCEPT !.updates = @ + 1]
    /\ trace' = Append(trace, "scaler_update")
    /\ todo' = Tail(todo)
    /\ UNCHANGED <<pc, env, epoch, batch, loss, correct, train_sums, val_sums,
                   batch_losses, metrics, model, optimizer, lr_scheduler,
                   outputs>>

\* Lines 151-155 and 168-172: the running sums of the phase, then the loop
\* moves on to the next batch.
Accumulate ==
    /\ pc \in BatchPcs /\ todo # <<>> /\ Head(todo) = "accumulate"
    /\ IF pc = "TrainingBatch"
       THEN /\ total_train_loss' = total_train_loss + loss
            /\ total_train_correct' = total_train_correct + correct
            /\ pc' = "TrainLoop"
            /\ UNCHANGED val_sums
       ELSE /\ total_val_loss' = total_val_loss + loss
            /\ total_val_correct' = total_val_correct + correct
            /\ pc' = "ValLoop"
            /\ UNCHANGED train_sums
    /\ batch_losses' = Append(batch_losses, loss)
    /\ batch' = batch + 1
    /\ todo' = Tail(todo)
    /\ UNCHANGED <<env, epoch, trace, loss, correct, metrics, training_state,
                   outputs>>

\* Lines 157-158: the training loader is exhausted; both divisions raise
\* ZeroDivisionError on an empty split.
TrainMetrics ==
    /\ pc = "TrainLoop"
    /\ batch = LoaderLen(train_n)
    /\ IF LoaderLen(train_n) = 0 \/ train_n = 0
       THEN /\ pc' = "Aborted"
            /\ UNCHANGED <<avg_train_loss, train_accuracy>>
       ELSE /\ avg_train_loss' =
                  AvgLoss(total_train_loss, LoaderLen(train_n), train_n)
            /\ train_accuracy' =
                  Accuracy(total_train_correct, LoaderLen(train_n), train_n)
            /\ pc' = "TrainMetrics"
    /\ UNCHANGED <<env, epoch, batch, todo, trace, loss, correct, train_sums,
                   val_sums, batch_losses, avg_val_loss, val_accuracy,
                   training_state, outputs>>

\* Lines 161-163.
ValBegin ==
    /\ pc = "TrainMetrics"
    /\ model' = [model EXCEPT !.mode = "eval"]
    /\ total_val_loss' = 0
    /\ total_val_correct' = 0
    /\ batch' = 0
    /\ batch_losses' = <<>>
    /\ pc' = "ValLoop"
    /\ UNCHANGED <<env, epoch, todo, trace, loss, correct, train_sums, metrics,
                   optimizer, scaler, lr_scheduler, outputs>>

\* Lines 164-165: the validation loader yields its next batch.
ValBatchBegin ==
    /\ pc = "ValLoop"
    /\ batch < LoaderLen(val_n)
    /\ todo' = ValStmts
    /\ trace' = <<>>
    /\ pc' = "ValidatingBatch"
    /\ UNCHANGED <<env, epoch, batch, loss, correct, train_sums, val_sums,
                   batch_losses, metrics, training_state, outputs>>

\* Lines 174-178.
ValMetrics ==
    /\ pc = "ValLoop"
    /\ batch = LoaderLen(val_n)
    /\ IF LoaderLen(val_n) = 0 \/ val_n = 0
       THEN /\ pc' = "Aborted"
            /\ UNCHANGED <<avg_val_loss, val_accuracy, val_accs>>
       ELSE /\ avg_val_loss' = AvgLoss(total_val_loss, LoaderLen(val_n), val_n)
            /\ val_accuracy' =
                  Accuracy(total_val_correct, LoaderLen(val_n), val_n)
            /\ val_accs' = Append(val_accs, val_accuracy')
            /\ pc' = "Checkpointing"
    /\ UNCHANGED <<env, epoch, batch, todo, trace, loss, correct, train_sums,
                   val_sums, batch_losses, avg_train_loss, train_accuracy,
                   training_state, best_accuracy, log_lines, save_calls, lists>>

\* Lines 181-185: the epoch's log line, then the checkpoint decision.
Checkpoint ==
    /\ pc = "Checkpointing"
    /\ IF IsNewBest(val_accuracy, best_accuracy)
       THEN /\ best_accuracy' = val_accuracy
            /\ save_calls' = Append(save_calls,
                   [model |-> model.params, optimizer |-> optimizer.steps,
                    lr_scheduler |-> lr_scheduler, epoch |-> epoch,
                    val_accuracy |-> val_accuracy])
            /\ log_lines' = log_lines + 2
       ELSE /\ log_lines' = log_lines + 1
            /\ UNCHANGED <<best_accuracy, save_calls>>
    /\ lists' = HistoryAfterEpoch(lists, avg_train_loss, avg_val_loss,
                                  train_accuracy, val_accuracy)
    /\ pc' = "SchedulerStep"
    /\ UNCHANGED <<env, epoch, batch, todo, trace, loss, correct, train_sums,
                   val_sums, batch_losses, metrics, training_state, val_accs>>

\* Line 187.
LrSchedulerStep ==
    /\ pc = "SchedulerStep"
    /\ lr_scheduler' = SchedulerStep(lr_scheduler)
    /\ pc' = "EpochHead"
    /\ UNCHANGED <<env, epoch, batch, todo, trace, loss, correct, train_sums, val_sums,
                   batch_losses, metrics, model, optimizer, scaler, outputs>>

\* Lines 125 and 189: range(self.args.epochs) is exhausted.
Return ==
    /\ pc = "EpochHead"
    /\ epoch + 1 >= args.epochs
    /\ pc' = "Done"
    /\ UNCHANGED <<env, epoch, batch, todo, trace, loss, correct, train_sums,
                   val_sums, batch_losses, metrics, training_state, outputs>>

Next ==
    \/ Start
    \/ EpochBegin
    \/ TrainBatchBegin
    \/ ZeroGrad
    \/ ForwardLoss
    \/ Backward
    \/ ClipIf
    \/ ScalerStep
    \/ ScalerUpdate
    \/ Accumulate
    \/ TrainMetrics
    \/ ValBegin
    \/ ValBatchBegin
    \/ ValMetrics
    \/ Checkpoint
    \/ LrSchedulerStep
    \/ Return

Spec == Init /\ [][Next]_vars

\* ------------------------------------------------------ derived notions
Range(seq) == {seq[i] : i \in DOMAIN seq}
IsPrefix(a, b) == Len(a) <= Len(b) /\ \A i \in DOMAIN a : a[i] = b[i]

RECURSIVE SumSeq(_)
SumSeq(seq) == IF seq = <<>> THEN 0 ELSE Head(seq) + SumSeq(Tail(seq))

\* Sum of the per-batch losses, each weighted by the size of its batch.
RECURSIVE WeightedSum(_, _, _, _)
WeightedSum(losses, i, n, bs) ==
    IF i > Len(losses) THEN 0
    ELSE losses[i] * BatchLen(i, n, bs) + WeightedSum(losses, i + 1, n, bs)

EqualBatches(n, bs) ==
    \A i \in 1..NumBatches(n, bs) : BatchLen(i, n, bs) = BatchLen(1, n, bs)

\* Epochs whose checkpoint decision has been taken; val_accs[k] belongs to
\* epoch index k - 1.
DecidedEpochs ==
    IF pc = "Checkpointing" THEN Len(val_accs) - 1 ELSE Len(val_accs)
SavesIn(e) == {i \in DOMAIN save_calls : save_calls[i].epoch = e}
BeatsPrevious(k) == \A j \in 1..(k - 1) : Gt(val_accs[k], val_accs[j])
CompletedEpochs ==
    IF pc \in {"Idle", "EpochHead", "Done"} THEN epoch + 1 ELSE epoch
TrainBatchesDone ==
    IF pc \in {"TrainLoop", "TrainingBatch"}
    THEN epoch * LoaderLen(train_n) + batch
    ELSE (epoch + 1) * LoaderLen(train_n)
ExpectedCalls(clip_grad) ==
    <<"zero_grad", "forward_loss", "backward">>
    \o (IF clip_grad > 0 THEN <<"unscale_", "clip_gradients">> ELSE <<>>)
    \o <<"scaler_step", "scaler_update">>
ValidationPcs == {"TrainMetrics", "ValLoop", "ValidatingBatch"}

C2_State ==
    /\ pc # "Idle" =>
          /\ Ge(best_accuracy, Floor)
          /\ \A k \in 1..DecidedEpochs : Ge(best_accuracy, val_accs[k])
          /\ \/ best_accuracy = Floor
             \/ \E k \in 1..DecidedEpochs : best_accuracy = val_accs[k]
    /\ \A i \in DOMAIN save_calls :
          /\ Gt(save_calls[i].val_accuracy, Floor)
          /\ \A k \in 1..save_calls[i].epoch :
                 Gt(save_calls[i].val_accuracy, val_accs[k])
          /\ \A j \in DOMAIN save_calls :
                 i < j => Gt(save_calls[j].val_accuracy,
                             save_calls[i].val_accuracy)
    /\ save_calls # <<>> =>
          best_accuracy = save_calls[Len(save_calls)].val_accuracy
C2_Step ==
    /\ Ge(best_accuracy', best_accuracy)
    /\ save_calls' # save_calls => Gt(best_accuracy', best_accuracy)

\* C2: the best-value record never decreases, a tie never triggers a
\* checkpoint, the accuracies of successive checkpoint writes are strictly
\* increasing, and after each epoch the record is the largest validation
\* accuracy seen so far, or the floor 0.0 when none exceeded it.
C2_Theorem == []C2_State /\ [][C2_Step]_vars

\* Two epochs with the same positive validation accuracy: one checkpoint.
C2_Witness ==
    /\ pc = "Done"
    /\ Len(val_accs) = 2
    /\ val_accs[1].num > 0
    /\ val_accs[2] = val_accs[1]
    /\ Len(save_calls) = 1
    /\ best_accuracy = val_accs[1]

\* ------------------------------------------------------------------ C3
\* C3: with a configuration produced by get_args_parser, train() never
\* aborts and, when it is done, has run exactly args.epochs epochs.
C3_Claim ==
    args \in ParsedArgs =>
        /\ pc # "Aborted"
        /\ pc = "Done" => CompletedEpochs = args.epochs

\* ------------------------------------------------------------------ C4
\* C4: the scheduler has been stepped exactly once per completed epoch, in
\* every position of the loop and for every loader length, and a checkpoint
\* written in epoch index e captures a scheduler stepped e times.
C4_Theorem ==
    /\ lr_scheduler = CompletedEpochs
    /\ \A i \in DOMAIN save_calls :
           save_calls[i].lr_scheduler = save_calls[i].epoch

\* A finished run of two epochs of two training batches each, with a
\* checkpoint written in the second epoch.
C4_Witness ==
    /\ pc = "Done"
    /\ lr_scheduler = 2
    /\ LoaderLen(train_n) = 2
    /\ SavesIn(1) # {}

\* ------------------------------------------------------------------ C5
\* C5: the calls of a training batch are zero_grad, forward/loss, backward,
\* (unscale_, clip_gradients when clip_grad > 0, neither otherwise),
\* scaler.step, scaler.update, in that order, with one optimizer step per
\* batch.
C5_Theorem ==
    /\ pc = "TrainingBatch" =>
          IF HasAttr(args, "clip_grad")
          THEN IsPrefix(trace, ExpectedCalls(args.clip_grad))
          ELSE IsPrefix(trace, <<"zero_grad", "forward_loss", "backward">>)
    /\ (pc = "TrainLoop" /\ batch > 0) =>
          /\ HasAttr(args, "clip_grad")
          /\ trace = ExpectedCalls(args.clip_grad)
    /\ pc # "Aborted" =>
          optimizer.steps =
              TrainBatchesDone
              + (IF pc = "TrainingBatch" /\ "scaler_step" \in Range(trace)
                 THEN 1 ELSE 0)

\* A second training batch completed with a positive clip threshold.
C5_Witness ==
    /\ pc = "TrainLoop"
    /\ batch = 2
    /\ HasAttr(args, "clip_grad")
    /\ args.clip_grad > 0
    /\ "clip_gradients" \in Range(trace)
    /\ optimizer.steps = 2

\* ------------------------------------------------------------------ C6
C6_Step ==
    pc \in ValidationPcs =>
        /\ model'.params = model.params
        /\ UNCHANGED <<optimizer, scaler, lr_scheduler, train_sums,
                       best_accuracy, save_calls>>
        /\ pc' = "ValidatingBatch" => Range(trace') \subseteq {"forward_loss"}
        /\ pc' \in ValidationPcs \cup {"Checkpointing", "Aborted"}

\* C6: from the end of the last training batch to the checkpoint decision
\* no step changes the model parameters, the optimizer, the scaler, the
\* scheduler, the training sums, the best-value record or the checkpoint,
\* and a validation batch calls nothing but the forward pass and the loss.
C6_Theorem == [][C6_Step]_vars

\* The validation phase of the second epoch has consumed its loader, after
\* the training steps of two epochs.
C6_Witness ==
    /\ pc = "Checkpointing"
    /\ epoch = 1
    /\ batch = LoaderLen(val_n)
    /\ optimizer.steps = 2 * LoaderLen(train_n)
    /\ total_val_correct = 2

\* ------------------------------------------------------------------ C7
\* C7: each accuracy is the accumulated correct count over the number of
\* examples of its split and lies in [0,1]; the correct count is between 0
\* and the split's example count.
C7_Theorem ==
    /\ total_train_correct \in 0..train_n
    /\ total_val_correct \in 0..val_n
    /\ pc = "TrainMetrics" =>
          train_accuracy = Rat(total_train_correct, train_n)
    /\ pc = "Checkpointing" =>
          val_accuracy = Rat(total_val_correct, val_n)
    /\ \A a \in {train_accuracy, val_accuracy} :
          a # Unbound => a.den > 0 /\ a.num >= 0 /\ a.num <= a.den

\* Second epoch, every example of both splits predicted correctly, the
\* training split in two batches.
C7_Witness ==
    /\ pc = "Checkpointing"
    /\ epoch = 1
    /\ LoaderLen(train_n) = 2
    /\ train_accuracy = Rat(train_n, train_n)
    /\ val_accuracy = Rat(val_n, val_n)

\* ------------------------------------------------------------------ C8
\* C8: with epochs = 1, batch_size = 128 and two examples per split, train()
\* completes, emits exactly one log line and writes exactly one checkpoint
\* if the validation accuracy is > 0, none if it is 0.
C8_Claim ==
    (/\ args.epochs = 1
     /\ args.batch_size = DefaultBatchSize
     /\ train_n = 2
     /\ val_n = 2) =>
        /\ pc # "Aborted"
        /\ pc = "Done" =>
              /\ log_lines = 1
              /\ Len(save_calls) = (IF Gt(val_accuracy, Floor) THEN 1 ELSE 0)

C10_Theorem == lists = EmptyLists

\* A run of two epochs has returned.
C10_Witness ==
    /\ pc = "Done"
    /\ CompletedEpochs = 2
    /\ log_lines >= 2
    /\ lists.val_accuracies = <<>>

====
